---- MODULE Spec2Model ----
(***************************************************************************)
(* Model of FleetManagerAgent (src/src/agents/base/FleetManagerAgent.ts),  *)
(* QueueAgent (QueueAgent.ts) and SchedulerAgent (SchedulerAgent.ts).  The *)
(* three agents are separate objects; each specification below runs one   *)
(* of them and leaves the state of the other two at its initial value.    *)
(*                                                                         *)
(* The agent runs on a single-threaded event loop: a handler runs without *)
(* interruption up to its next await.  Every action below is one such     *)
(* run-to-await segment.  A submitBatch call spans many segments: the     *)
(* synchronous start of processBatch, then one segment per resolved       *)
(* await of a spawnWorker activation, and one per resumption of the       *)
(* dispatch loop after Promise.race.                                      *)
(*                                                                         *)
(* Batch ids and worker ids are generated fresh by generateId; the model  *)
(* numbers the batches 1, 2, ... in creation order and names a worker     *)
(* <<b, k>>: the k-th worker spawned for batch b.  Batch.completedAt is   *)
(* Date.now() at its last write; the model keeps the number of writes (0: *)
(* not set), taking each reading of the clock to differ from the earlier  *)
(* ones.  The other timestamps (createdAt, startedAt, spawnedAt,          *)
(* duration) are not read by any code path and are left out.              *)
(*                                                                         *)
(* The variable reply holds what the step just taken handed back to the   *)
(* caller of a @callable method: the value returned or the Error thrown.  *)
(***************************************************************************)
EXTENDS Integers, Sequences, FiniteSets, TLC

\* ---------------------------------------------------------------- bounds
MaxBatches == 2        \* submitBatch calls per behaviour
MaxTasks == 3          \* tasks submitted per behaviour, over all its batches
MaxFails == 1          \* attempts of one task that the worker side fails
MaxControlBatches == 1 \* submitBatch calls per behaviour of ControlSpec
MaxEnqueued == 3       \* QueueAgent: enqueue calls per behaviour
MaxScheduled == 2      \* SchedulerAgent: tasks scheduled per behaviour
MaxExecutions == 2     \* SchedulerAgent: task executions per behaviour
MaxTime == 1           \* SchedulerAgent: last reading of the clock

\* ------------------------------------------------------ program constants
DefaultMaxConcurrentWorkers == 10
DefaultWorkerTimeout == 300000
DefaultMaxRetries == 3
HistoryLimit == 1000   \* SchedulerAgent: entries kept in executionHistory

VARIABLES
    config,    \* state.config
    batches,   \* state.batches: sequence indexed by batch id
    workers,   \* state.workers: function of worker id
    stats,     \* state.stats
    loops,     \* per batch: the locals of its processBatch activation
    calls,     \* per worker: the locals of its spawnWorker activation
    reply,     \* what the step just taken handed back to a caller
    mainQueue,         \* QueueAgent: state.queue
    deadLetterQueue,   \* QueueAgent: state.deadLetterQueue
    queueStats,        \* QueueAgent: state.stats
    schedTasks,        \* SchedulerAgent: state.tasks, in key insertion order
    executionHistory,  \* SchedulerAgent: state.executionHistory
    schedStats,        \* SchedulerAgent: state.stats
    schedRuns,         \* SchedulerAgent: alarm / executeTask runs at an await
    alarms,            \* SchedulerAgent: times an alarm is scheduled for
    now                \* SchedulerAgent: Date.now()

fleetVars == <<config, batches, workers, stats, loops, calls>>
queueVars == <<mainQueue, deadLetterQueue, queueStats>>
schedVars == <<schedTasks, executionHistory, schedStats, schedRuns, alarms, now>>

vars == <<fleetVars, reply, queueVars, schedVars>>

\* ---------------------------------------------------------------- helpers
Min(a, b) == IF a < b THEN a ELSE b

RECURSIVE SeqsUpTo(_, _)
\* all sequences over S of length 0..n
SeqsUpTo(S, n) ==
    IF n = 0 THEN {<<>>}
    ELSE LET shorter == SeqsUpTo(S, n - 1)
         IN shorter \cup {Append(s, x) : s \in {t \in shorter : Len(t) = n - 1}, x \in S}

\* A submitted task list: task i has id i, no retries field yet, and
\* failsFirst = how many of its first attempts the worker side fails.
TaskOf(i, f) == [id |-> i, retries |-> 0, failsFirst |-> f]

TaskLists ==
    {[i \in 1..Len(fs) |-> TaskOf(i, fs[i])] : fs \in SeqsUpTo(0..MaxFails, MaxTasks)}

Terminal == {"completed", "failed", "partial"}

\* Arguments callers pass to scaleWorkers / updateConfig.
ScaleArgs == {0, 1, 2}
RetryArgs == {0, 1}
ConfigKeys == {"maxConcurrentWorkers", "retryFailedTasks", "maxRetries"}

\* ------------------------------------------------------------------ replies
\* A step that ends a @callable method hands its outcome to the caller: the
\* value returned, or the Error thrown.  A step that ends no call (a segment
\* of spawnWorker, a processBatch pass that reaches an await) hands back
\* nothing.  arg is the batch id or the count the call was made with (0 for
\* submitBatch, whose argument is the task list).
NoReply == [call |-> "none", arg |-> 0, error |-> "none", value |-> "none"]
Returned(call, arg, value) == [call |-> call, arg |-> arg, error |-> "none", value |-> value]
Threw(call, arg, error) == [call |-> call, arg |-> arg, error |-> error, value |-> "none"]

\* ------------------------------------------------------------ initial state
InitialConfig ==
    [maxConcurrentWorkers |-> DefaultMaxConcurrentWorkers,
     workerTimeout |-> DefaultWorkerTimeout,
     retryFailedTasks |-> TRUE,
     maxRetries |-> DefaultMaxRetries]

\* QueueAgent.initialState.stats
InitialQueueStats ==
    [totalEnqueued |-> 0, totalDequeued |-> 0, currentSize |-> 0, deadLetterSize |-> 0]

\* SchedulerAgent.initialState.stats
InitialSchedStats ==
    [totalTasks |-> 0, activeTasks |-> 0, totalExecutions |-> 0,
     successfulExecutions |-> 0, failedExecutions |-> 0]

InitialStats ==
    [totalBatches |-> 0, totalTasks |-> 0, completedTasks |-> 0,
     failedTasks |-> 0, activeWorkers |-> 0]

Init ==
    /\ config = InitialConfig
    /\ batches = <<>>
    /\ workers = <<>>
    /\ stats = InitialStats
    /\ loops = <<>>
    /\ calls = <<>>
    /\ reply = NoReply
    /\ mainQueue = <<>>
    /\ deadLetterQueue = <<>>
    /\ queueStats = InitialQueueStats
    /\ schedTasks = <<>>
    /\ executionHistory = <<>>
    /\ schedStats = InitialSchedStats
    /\ schedRuns = <<>>
    /\ alarms = {}
    /\ now = 0

\* ------------------------------------------------- pure parts of the code
\* submitBatch: the Batch record it stores (completedAt = 0: not set)
NewBatch(tasks) ==
    [tasks |-> tasks, status |-> "pending", results |-> <<>>,
     totalTasks |-> Len(tasks), completedTasks |-> 0, failedTasks |-> 0,
     workerIds |-> <<>>, completedAt |-> 0]

\* SpawnCount with the slot test written <= : one worker too many
SpawnCountOffByOne(queueLen, activeSize, maxC) ==
    IF activeSize <= maxC THEN Min(queueLen, maxC - activeSize + 1) ELSE 0

\* processBatch, inner while: how many workers one pass of the loop spawns
SpawnCount(queueLen, activeSize, maxC) ==
    IF activeSize < maxC THEN Min(queueLen, maxC - activeSize) ELSE 0

\* TaskForSlot that takes the tasks from the end of the backlog (pop)
TaskForSlotFromEnd(taskQueue, i) == taskQueue[Len(taskQueue) + 1 - i]

\* processBatch, inner while: the task its i-th taskQueue.shift() yields
TaskForSlot(taskQueue, i) == taskQueue[i]

\* [...new Set([...batch.workerIds, workerId])]
AddWorkerId(ids, w) ==
    IF \E i \in 1..Len(ids) : ids[i] = w THEN ids ELSE Append(ids, w)

\* RecordTaskResult with failedDelta not depending on result.success
RecordTaskResultAlwaysFailed(batch, workerId, result) ==
    [batch EXCEPT
        !.results = Append(@, result),
        !.completedTasks = @ + (IF result.success THEN 1 ELSE 0),
        !.failedTasks = @ + 1,
        !.workerIds = AddWorkerId(@, workerId)]

\* RecordTaskResult that puts the result in front of the list
RecordTaskResultPrepends(batch, workerId, result) ==
    [batch EXCEPT
        !.results = <<result>> \o @,
        !.completedTasks = @ + (IF result.success THEN 1 ELSE 0),
        !.failedTasks = @ + (IF result.success THEN 0 ELSE 1),
        !.workerIds = AddWorkerId(@, workerId)]

\* RecordTaskResult that counts the result without storing it
RecordTaskResultCountsOnly(batch, workerId, result) ==
    [batch EXCEPT
        !.completedTasks = @ + (IF result.success THEN 1 ELSE 0),
        !.failedTasks = @ + (IF result.success THEN 0 ELSE 1),
        !.workerIds = AddWorkerId(@, workerId)]

\* RecordTaskResult that drops a result whose success is false
RecordTaskResultDropsFailure(batch, workerId, result) ==
    IF result.success
    THEN [batch EXCEPT
             !.results = Append(@, result),
             !.completedTasks = @ + 1,
             !.workerIds = AddWorkerId(@, workerId)]
    ELSE batch

\* recordTaskResult: the batch record after the result is recorded
RecordTaskResult(batch, workerId, result) ==
    [batch EXCEPT
        !.results = Append(@, result),
        !.completedTasks = @ + (IF result.success THEN 1 ELSE 0),
        !.failedTasks = @ + (IF result.success THEN 0 ELSE 1),
        !.workerIds = AddWorkerId(@, workerId)]

\* RecordStats that counts every result as completed
RecordStatsAllCompleted(st, result) ==
    [st EXCEPT !.completedTasks = @ + 1]

\* recordTaskResult: the global stats after the result is recorded
RecordStats(st, result) ==
    [st EXCEPT
        !.completedTasks = @ + (IF result.success THEN 1 ELSE 0),
        !.failedTasks = @ + (IF result.success THEN 0 ELSE 1)]

\* ActiveWorkerDelta that forgets the handles that end completed
ActiveWorkerDeltaFailedOnly(status) ==
    IF status = "failed" THEN -1 ELSE 0

\* ActiveWorkerDelta that also counts the transition to active
ActiveWorkerDeltaCountsActive(status) ==
    IF status = "completed" \/ status = "failed" THEN -1
    ELSE IF status = "active" THEN 1 ELSE 0

\* updateWorkerStatus: the delta applied to stats.activeWorkers
ActiveWorkerDelta(status) ==
    IF status = "completed" \/ status = "failed" THEN -1 ELSE 0

\* ShouldRetry that does not look at retryFailedTasks
ShouldRetryIgnoresFlag(cfg, task) == task.retries < cfg.maxRetries

\* ShouldRetry with the attempt test written <= : one retry too many
ShouldRetryOffByOne(cfg, task) ==
    cfg.retryFailedTasks /\ task.retries <= cfg.maxRetries

\* spawnWorker, catch path: is the failed task re-queued?
ShouldRetry(cfg, task) ==
    cfg.retryFailedTasks /\ task.retries < cfg.maxRetries

\* spawnWorker, catch path: the re-queued task
RetryTask(task) == [task EXCEPT !.retries = @ + 1]

\* spawnWorker, catch path: the batch record after the re-queue
Requeue(batch, task) ==
    [batch EXCEPT !.tasks = Append(@, RetryTask(task)), !.totalTasks = @ + 1]

\* AllTasksProcessed with the comparison written > instead of >=
AllTasksProcessedStrict(batch) ==
    batch.completedTasks + batch.failedTasks > batch.totalTasks

\* finalizeBatch: allTasksProcessed
AllTasksProcessed(batch) ==
    batch.completedTasks + batch.failedTasks >= batch.totalTasks

\* FinalStatus that reports any failure as failed and never partial
FinalStatusNoPartial(batch) ==
    IF batch.failedTasks = 0 THEN "completed" ELSE "failed"

\* FinalStatus that tests completedTasks first: the empty batch ends failed
FinalStatusFailedFirst(batch) ==
    IF batch.completedTasks = 0 THEN "failed"
    ELSE IF batch.failedTasks = 0 THEN "completed"
    ELSE "partial"

\* finalizeBatch: the status it computes
FinalStatus(batch) ==
    IF batch.failedTasks = 0 THEN "completed"
    ELSE IF batch.completedTasks = 0 THEN "failed"
    ELSE "partial"

\* FinalizeBatch that leaves a batch without tasks alone
FinalizeBatchSkipsEmpty(batch) ==
    IF AllTasksProcessed(batch) /\ batch.totalTasks > 0
    THEN [batch EXCEPT !.status = FinalStatus(batch), !.completedAt = @ + 1]
    ELSE batch

\* finalizeBatch: the batch record it leaves
FinalizeBatch(batch) ==
    IF AllTasksProcessed(batch)
    THEN [batch EXCEPT !.status = FinalStatus(batch), !.completedAt = @ + 1]
    ELSE batch

\* cancelBatch: the statuses for which it returns false
CancelRefused(status) == status = "completed" \/ status = "failed"

\* getBatchStatus: the view it returns; progress is the fraction num/den
GetBatchStatus(b) ==
    LET batch == batches[b]
    IN [status |-> batch.status,
        totalTasks |-> batch.totalTasks,
        completedTasks |-> batch.completedTasks,
        failedTasks |-> batch.failedTasks,
        progress |-> IF batch.totalTasks > 0
                     THEN [num |-> batch.completedTasks + batch.failedTasks,
                           den |-> batch.totalTasks]
                     ELSE [num |-> 0, den |-> 1]]

\* The worker side: attempt number task.retries of a task fails while it is
\* among the task's first failsFirst attempts.
AttemptFails(task) == task.retries < task.failsFirst

\* A dispatch loop with tasks left, no execution in flight and no free slot
\* never reaches an await: it spins and the event loop runs nothing else.
Hung == \E b \in 1..Len(loops) : loops[b].pc = "spin"

\* A resolved Promise.race resumes its processBatch in the microtasks that
\* follow the settling spawnWorker call, before the event loop delivers the
\* next call from outside (submitBatch, cancelBatch, scaleWorkers,
\* updateConfig).
ResumePending == \E b \in 1..Len(loops) : loops[b].pc = "await" /\ loops[b].raceDone

\* the event loop is free to start a handler for a call from outside
Idle == ~Hung /\ ~ResumePending

\* ------------------------------------------------------------- dispatch loop
\* processBatch from the top of its outer while up to its next await (or its
\* end), for batch b, entered with batch records bs, stats st and the loop's
\* locals queue, active and maxC.  Each spawnWorker call runs synchronously up
\* to its await of getWorkerInstance: it registers the worker (registerWorker)
\* and joins activeWorkers.  Leaving the loop, processBatch calls finalizeBatch.
Dispatch(b, bs, st, queue, active, maxC) ==
    LET k == SpawnCount(Len(queue), Cardinality(active), maxC)
        spawned == Cardinality({w \in DOMAIN workers : w[1] = b})
        new == {<<b, spawned + i>> : i \in 1..k}
        active2 == active \cup new
        queue2 == SubSeq(queue, k + 1, Len(queue))
        pc2 == IF active2 # {} THEN "await"
               ELSE IF queue2 # <<>> THEN "spin"
               ELSE "done"
        loop2 == [pc |-> pc2, maxConcurrentWorkers |-> maxC, taskQueue |-> queue2,
                  activeWorkers |-> active2, raceDone |-> FALSE]
    IN /\ workers' = [w \in DOMAIN workers \cup new |->
                         IF w \in new
                         THEN [taskId |-> TaskForSlot(queue, w[2] - spawned).id,
                               status |-> "spawning"]
                         ELSE workers[w]]
       /\ calls' = [w \in DOMAIN calls \cup new |->
                       IF w \in new
                       THEN [batchId |-> b, task |-> TaskForSlot(queue, w[2] - spawned),
                             pc |-> "getWorkerInstance"]
                       ELSE calls[w]]
       /\ stats' = [st EXCEPT !.activeWorkers = @ + k]
       /\ loops' = [i \in 1..Len(bs) |-> IF i = b THEN loop2 ELSE loops[i]]
       /\ batches' = IF pc2 = "done"
                     THEN [bs EXCEPT ![b] = FinalizeBatch(@)]
                     ELSE bs
       /\ reply' = IF pc2 = "done" THEN Returned("submitBatch", 0, b) ELSE NoReply
       /\ UNCHANGED config

\* submitBatch(tasks): stores the batch, then runs processBatch up to its
\* first await.
SubmitBatch(tasks) ==
    /\ Idle
    /\ Len(batches) < MaxBatches
    /\ stats.totalTasks + Len(tasks) <= MaxTasks
    /\ LET b == Len(batches) + 1
           bs == Append(batches, [NewBatch(tasks) EXCEPT !.status = "processing"])
           st == [stats EXCEPT !.totalBatches = @ + 1, !.totalTasks = @ + Len(tasks)]
       IN Dispatch(b, bs, st, tasks, {}, config.maxConcurrentWorkers)

\* processBatch resumes after `await Promise.race(activeWorkers)`.
ResumeProcessBatch(b) ==
    /\ ~Hung
    /\ loops[b].pc = "await"
    /\ loops[b].raceDone
    /\ Dispatch(b, batches, stats, loops[b].taskQueue, loops[b].activeWorkers,
                loops[b].maxConcurrentWorkers)

\* ------------------------------------------------------------- spawnWorker
\* UpdateWorkerStatus that never writes the status completed
UpdateWorkerStatusSkipsCompleted(ws, w, status) ==
    IF w \in DOMAIN ws /\ status # "completed"
    THEN [ws EXCEPT ![w].status = status] ELSE ws

\* updateWorkerStatus: the handle of w with its new status (a missing handle
\* is left missing)
UpdateWorkerStatus(ws, w, status) ==
    IF w \in DOMAIN ws THEN [ws EXCEPT ![w].status = status] ELSE ws

\* spawnWorker's promise settles: its finally callback removes it from the
\* loop's activeWorkers, and the loop's Promise.race resolves.
Settle(w) ==
    LET b == calls[w].batchId
    IN /\ calls' = [calls EXCEPT ![w].pc = "done"]
       /\ loops' = [loops EXCEPT ![b].activeWorkers = @ \ {w}, ![b].raceDone = TRUE]
       /\ reply' = NoReply

\* TryPath that records every result in the oldest batch
TryPathFirstBatch(w, result) ==
    /\ batches' = [batches EXCEPT ![1] = RecordTaskResult(@, w, result)]
    /\ workers' = UpdateWorkerStatus(workers, w, "completed")
    /\ stats' = [RecordStats(stats, result) EXCEPT
                    !.activeWorkers = @ + ActiveWorkerDelta("completed")]
    /\ Settle(w)
    /\ UNCHANGED config

\* spawnWorker, try path after executeTaskOnWorker resolved with `result`
TryPath(w, result) ==
    LET b == calls[w].batchId
    IN /\ batches' = [batches EXCEPT ![b] = RecordTaskResult(@, w, result)]
       /\ workers' = UpdateWorkerStatus(workers, w, "completed")
       /\ stats' = [RecordStats(stats, result) EXCEPT
                       !.activeWorkers = @ + ActiveWorkerDelta("completed")]
       /\ Settle(w)
       /\ UNCHANGED config

\* spawnWorker, catch path
CatchPath(w) ==
    LET b == calls[w].batchId
        task == calls[w].task
        failureResult == [taskId |-> task.id, success |-> FALSE]
        recorded == RecordTaskResult(batches[b], w, failureResult)
    IN /\ batches' = [batches EXCEPT ![b] =
                         IF ShouldRetry(config, task) THEN Requeue(recorded, task)
                         ELSE recorded]
       /\ workers' = UpdateWorkerStatus(workers, w, "failed")
       /\ stats' = [RecordStats(stats, failureResult) EXCEPT
                       !.activeWorkers = @ + ActiveWorkerDelta("failed")]
       /\ Settle(w)
       /\ UNCHANGED config

\* `await this.getWorkerInstance(workerId)` resolves
GetWorkerInstanceResolves(w) ==
    /\ ~Hung
    /\ calls[w].pc = "getWorkerInstance"
    /\ workers' = UpdateWorkerStatus(workers, w, "active")
    /\ stats' = [stats EXCEPT !.activeWorkers = @ + ActiveWorkerDelta("active")]
    /\ calls' = [calls EXCEPT ![w].pc = "executeTask"]
    /\ reply' = NoReply
    /\ UNCHANGED <<config, batches, loops>>

\* `await this.getWorkerInstance(workerId)` throws
GetWorkerInstanceThrows(w) ==
    /\ ~Hung
    /\ calls[w].pc = "getWorkerInstance"
    /\ AttemptFails(calls[w].task)
    /\ CatchPath(w)

\* `await this.executeTaskOnWorker(worker, task)` resolves with a TaskResult,
\* whose success flag is false when the worker reports the failure in it
ExecuteTaskResolves(w) ==
    /\ ~Hung
    /\ calls[w].pc = "executeTask"
    /\ TryPath(w, [taskId |-> calls[w].task.id, success |-> ~AttemptFails(calls[w].task)])

\* `await this.executeTaskOnWorker(worker, task)` throws
ExecuteTaskThrows(w) ==
    /\ ~Hung
    /\ calls[w].pc = "executeTask"
    /\ AttemptFails(calls[w].task)
    /\ CatchPath(w)

\* ------------------------------------------------------- control surface
\* cancelBatch: the value it returns
CancelBatchReturns(b) == b \in DOMAIN batches /\ ~CancelRefused(batches[b].status)

\* cancelBatch(b); an id no submitBatch returned is unknown
CancelBatch(b) ==
    /\ Idle
    /\ IF CancelBatchReturns(b)
       THEN batches' = [batches EXCEPT ![b].status = "failed", ![b].completedAt = @ + 1]
       ELSE UNCHANGED batches
    /\ reply' = Returned("cancelBatch", b, CancelBatchReturns(b))
    /\ UNCHANGED <<config, workers, stats, loops, calls>>

\* ScaleWorkersThrows that lets a count of 0 through
ScaleWorkersThrowsBelowZero(count) == count < 0

\* scaleWorkers: the counts it rejects
ScaleWorkersThrows(count) == count < 1

\* scaleWorkers(count)
ScaleWorkers(count) ==
    /\ Idle
    /\ config' = IF ScaleWorkersThrows(count) THEN config
                 ELSE [config EXCEPT !.maxConcurrentWorkers = count]
    /\ reply' = IF ScaleWorkersThrows(count)
                THEN Threw("scaleWorkers", count, "Worker count must be at least 1")
                ELSE Returned("scaleWorkers", count, "void")
    /\ UNCHANGED <<batches, workers, stats, loops, calls>>

\* updateConfig(partial): partial holds the keys in `keys`, with the values
\* `vals` gives them
UpdateConfig(keys, vals) ==
    /\ Idle
    /\ config' = [k \in DOMAIN config |-> IF k \in keys THEN vals[k] ELSE config[k]]
    /\ reply' = Returned("updateConfig", 0, "void")
    /\ UNCHANGED <<batches, workers, stats, loops, calls>>

PartialValues ==
    [maxConcurrentWorkers : ScaleArgs, retryFailedTasks : BOOLEAN, maxRetries : RetryArgs]

\* BatchNotFound that takes every id for an unknown one
BatchNotFoundAlways(b) == TRUE

\* getBatchStatus / getBatchResults: `if (!batch) throw`
BatchNotFound(b) == b \notin DOMAIN batches

\* getBatchResults: the list it returns
GetBatchResults(b) == batches[b].results

\* getBatchStatus(b)
CallGetBatchStatus(b) ==
    /\ Idle
    /\ reply' = IF BatchNotFound(b)
                THEN Threw("getBatchStatus", b, "Batch not found")
                ELSE Returned("getBatchStatus", b, GetBatchStatus(b))
    /\ UNCHANGED <<config, batches, workers, stats, loops, calls>>

\* getBatchResults(b)
CallGetBatchResults(b) ==
    /\ Idle
    /\ reply' = IF BatchNotFound(b)
                THEN Threw("getBatchResults", b, "Batch not found")
                ELSE Returned("getBatchResults", b, GetBatchResults(b))
    /\ UNCHANGED <<config, batches, workers, stats, loops, calls>>

\* ------------------------------------------------------------ specification
\* a step of the FleetManagerAgent: the other agents' state stays as it is
FleetOnly == UNCHANGED <<queueVars, schedVars>>

\* Spec: the configuration is set up before the first batch is submitted and
\* held fixed from then on.
NoBatchYet == batches = <<>>

Next ==
    \/ FleetOnly /\ \E tasks \in TaskLists : SubmitBatch(tasks)
    \/ FleetOnly /\ \E b \in DOMAIN loops : ResumeProcessBatch(b)
    \/ FleetOnly /\ \E w \in DOMAIN calls : GetWorkerInstanceResolves(w)
    \/ FleetOnly /\ \E w \in DOMAIN calls : GetWorkerInstanceThrows(w)
    \/ FleetOnly /\ \E w \in DOMAIN calls : ExecuteTaskResolves(w)
    \/ FleetOnly /\ \E w \in DOMAIN calls : ExecuteTaskThrows(w)
    \/ FleetOnly /\ \E b \in 1..MaxBatches : CancelBatch(b)
    \/ FleetOnly /\ NoBatchYet /\ \E n \in ScaleArgs : ScaleWorkers(n)
    \/ FleetOnly /\ NoBatchYet /\ \E keys \in SUBSET ConfigKeys, vals \in PartialValues : UpdateConfig(keys, vals)

Spec == Init /\ [][Next]_vars

\* FairSpec: every awaited getWorkerInstance / executeTaskOnWorker call
\* eventually resolves or throws, and a dispatch loop whose Promise.race has
\* resolved is eventually resumed by the event loop.  Calls from outside
\* (submitBatch, cancelBatch, ...) are under no obligation to happen.
WorkerSettles ==
    FleetOnly /\ \E w \in DOMAIN calls :
        \/ GetWorkerInstanceResolves(w)
        \/ GetWorkerInstanceThrows(w)
        \/ ExecuteTaskResolves(w)
        \/ ExecuteTaskThrows(w)

LoopResumes == FleetOnly /\ \E b \in DOMAIN loops : ResumeProcessBatch(b)

FairSpec == Spec /\ WF_vars(WorkerSettles) /\ WF_vars(LoopResumes)

\* ControlSpec: the callers also scale the dispatcher while batches are being
\* processed, and query the batches.
ControlNext ==
    \/ FleetOnly /\ Len(batches) < MaxControlBatches /\ \E tasks \in TaskLists : SubmitBatch(tasks)
    \/ FleetOnly /\ \E b \in DOMAIN loops : ResumeProcessBatch(b)
    \/ FleetOnly /\ \E w \in DOMAIN calls : GetWorkerInstanceResolves(w)
    \/ FleetOnly /\ \E w \in DOMAIN calls : GetWorkerInstanceThrows(w)
    \/ FleetOnly /\ \E w \in DOMAIN calls : ExecuteTaskResolves(w)
    \/ FleetOnly /\ \E w \in DOMAIN calls : ExecuteTaskThrows(w)
    \/ FleetOnly /\ \E b \in 1..MaxBatches : CancelBatch(b)
    \/ FleetOnly /\ \E n \in ScaleArgs : ScaleWorkers(n)
    \/ FleetOnly /\ NoBatchYet /\ \E keys \in SUBSET ConfigKeys, vals \in PartialValues : UpdateConfig(keys, vals)
    \/ FleetOnly /\ \E b \in 1..MaxBatches : CallGetBatchStatus(b)
    \/ FleetOnly /\ \E b \in 1..MaxBatches : CallGetBatchResults(b)

ControlSpec == Init /\ [][ControlNext]_vars

\* DrainSpec: batches are submitted and drained with no other call from
\* outside once the first batch exists; FairDrainSpec adds the scheduling of
\* FairSpec.
DrainNext ==
    \/ FleetOnly /\ \E tasks \in TaskLists : SubmitBatch(tasks)
    \/ FleetOnly /\ \E b \in DOMAIN loops : ResumeProcessBatch(b)
    \/ FleetOnly /\ \E w \in DOMAIN calls : GetWorkerInstanceResolves(w)
    \/ FleetOnly /\ \E w \in DOMAIN calls : GetWorkerInstanceThrows(w)
    \/ FleetOnly /\ \E w \in DOMAIN calls : ExecuteTaskResolves(w)
    \/ FleetOnly /\ \E w \in DOMAIN calls : ExecuteTaskThrows(w)
    \/ FleetOnly /\ NoBatchYet /\ \E n \in ScaleArgs : ScaleWorkers(n)
    \/ FleetOnly /\ NoBatchYet /\ \E keys \in SUBSET ConfigKeys, vals \in PartialValues : UpdateConfig(keys, vals)

DrainSpec == Init /\ [][DrainNext]_vars

FairDrainSpec == DrainSpec /\ WF_vars(WorkerSettles) /\ WF_vars(LoopResumes)

\* ReconfigSpec: one batch, with updateConfig callable at any time, also
\* while the batch is processing.
ReconfigNext ==
    \/ FleetOnly /\ Len(batches) < MaxControlBatches /\ \E tasks \in TaskLists : SubmitBatch(tasks)
    \/ FleetOnly /\ \E b \in DOMAIN loops : ResumeProcessBatch(b)
    \/ FleetOnly /\ \E w \in DOMAIN calls : GetWorkerInstanceResolves(w)
    \/ FleetOnly /\ \E w \in DOMAIN calls : GetWorkerInstanceThrows(w)
    \/ FleetOnly /\ \E w \in DOMAIN calls : ExecuteTaskResolves(w)
    \/ FleetOnly /\ \E w \in DOMAIN calls : ExecuteTaskThrows(w)
    \/ FleetOnly /\ \E keys \in SUBSET ConfigKeys, vals \in PartialValues : UpdateConfig(keys, vals)

ReconfigSpec == Init /\ [][ReconfigNext]_vars

\* ================================================================ QueueAgent
\* Every method of QueueAgent runs without an await: one action per call.
\* Item ids come from generateId and are fresh; the model numbers the items
\* 1, 2, ... in the order of the enqueue calls.  payload, enqueuedAt and
\* metadata are not read by any method and are left out.

\* priorities the callers pass to enqueue (0 is the default)
Priorities == {-1, 0, 1}

\* what dequeueItem and peek return for null: no item has id 0
NoItem == [id |-> 0, priority |-> 0, retries |-> 0]

\* a step of the QueueAgent: the FleetManagerAgent's state stays as it is
QueueOnly == UNCHANGED <<fleetVars, schedVars>>

\* InsertByPriority with the comparison turned round: lowest priority first
InsertByPriorityAscending(sorted, item) ==
    SelectSeq(sorted, LAMBDA x : x.priority <= item.priority)
        \o <<item>> \o SelectSeq(sorted, LAMBDA x : x.priority > item.priority)

\* one insertion of the stable sort by (a, b) => b.priority - a.priority:
\* the item goes behind every item whose priority is not lower
InsertByPriority(sorted, item) ==
    SelectSeq(sorted, LAMBDA x : x.priority >= item.priority)
        \o <<item>> \o SelectSeq(sorted, LAMBDA x : x.priority < item.priority)

RECURSIVE SortByPriority(_)
\* items.sort((a, b) => b.priority - a.priority): stable, highest first
SortByPriority(items) ==
    IF items = <<>> THEN <<>>
    ELSE InsertByPriority(SortByPriority(SubSeq(items, 1, Len(items) - 1)),
                          items[Len(items)])

\* enqueue(payload, priority)
Enqueue(priority) ==
    /\ queueStats.totalEnqueued < MaxEnqueued
    /\ LET item == [id |-> queueStats.totalEnqueued + 1, priority |-> priority, retries |-> 0]
           sorted == SortByPriority(Append(mainQueue, item))
       IN /\ mainQueue' = sorted
          /\ queueStats' = [queueStats EXCEPT !.totalEnqueued = @ + 1,
                                              !.currentSize = Len(sorted)]
          /\ reply' = Returned("enqueue", priority, item.id)
    /\ UNCHANGED deadLetterQueue

\* dequeueItem()
DequeueItem ==
    IF Len(mainQueue) = 0
    THEN /\ reply' = Returned("dequeueItem", 0, NoItem)
         /\ UNCHANGED queueVars
    ELSE LET remaining == Tail(mainQueue)
         IN /\ mainQueue' = remaining
            /\ queueStats' = [queueStats EXCEPT !.totalDequeued = @ + 1,
                                                !.currentSize = Len(remaining)]
            /\ reply' = Returned("dequeueItem", 0, Head(mainQueue))
            /\ UNCHANGED deadLetterQueue

\* peek()
Peek ==
    /\ reply' = Returned("peek", 0, IF Len(mainQueue) = 0 THEN NoItem ELSE mainQueue[1])
    /\ UNCHANGED queueVars

\* getQueueLength()
GetQueueLength ==
    /\ reply' = Returned("getQueueLength", 0, Len(mainQueue))
    /\ UNCHANGED queueVars

\* moveToDeadLetter: findIndex over state.queue, 0 for -1
FindIndex(items, itemId) ==
    IF \E i \in DOMAIN items : items[i].id = itemId
    THEN CHOOSE i \in DOMAIN items :
             items[i].id = itemId /\ \A j \in 1..(i - 1) : items[j].id # itemId
    ELSE 0

\* moveToDeadLetter(itemId)
MoveToDeadLetter(itemId) ==
    LET itemIndex == FindIndex(mainQueue, itemId)
    IN IF itemIndex = 0
       THEN /\ reply' = Returned("moveToDeadLetter", itemId, FALSE)
            /\ UNCHANGED queueVars
       ELSE LET newQueue == SelectSeq(mainQueue, LAMBDA i : i.id # itemId)
                newDLQ == Append(deadLetterQueue, mainQueue[itemIndex])
            IN /\ mainQueue' = newQueue
               /\ deadLetterQueue' = newDLQ
               /\ queueStats' = [queueStats EXCEPT !.currentSize = Len(newQueue),
                                                   !.deadLetterSize = Len(newDLQ)]
               /\ reply' = Returned("moveToDeadLetter", itemId, TRUE)

\* getDeadLetterQueue()
GetDeadLetterQueue ==
    /\ reply' = Returned("getDeadLetterQueue", 0, deadLetterQueue)
    /\ UNCHANGED queueVars

\* ClearedStats that also resets deadLetterSize
ClearedStatsBoth(st) == [st EXCEPT !.currentSize = 0, !.deadLetterSize = 0]

\* clearQueue: the stats it writes
ClearedStats(st) == [st EXCEPT !.currentSize = 0]

\* clearQueue()
ClearQueue ==
    /\ mainQueue' = <<>>
    /\ queueStats' = ClearedStats(queueStats)
    /\ reply' = Returned("clearQueue", 0, "void")
    /\ UNCHANGED deadLetterQueue

\* getStats()
QueueGetStats ==
    /\ reply' = Returned("getStats", 0, queueStats)
    /\ UNCHANGED queueVars

QueueNext ==
    \/ QueueOnly /\ \E p \in Priorities : Enqueue(p)
    \/ QueueOnly /\ DequeueItem
    \/ QueueOnly /\ Peek
    \/ QueueOnly /\ GetQueueLength
    \/ QueueOnly /\ \E id \in 1..MaxEnqueued : MoveToDeadLetter(id)
    \/ QueueOnly /\ GetDeadLetterQueue
    \/ QueueOnly /\ ClearQueue
    \/ QueueOnly /\ QueueGetStats

QueueSpec == Init /\ [][QueueNext]_vars

\* ============================================================ SchedulerAgent
\* scheduleTask, scheduleRecurringTask, cancelTask and setTaskEnabled run
\* without an await.  executeScheduledTask awaits the task's callback, and
\* the alarm handler awaits executeScheduledTask for one due task after the
\* other: a run of alarm or executeTask is a sequence of segments, each
\* ending where a callback is awaited.  A task whose callback names no method
\* fails without an await.  Task ids come from generateScheduleId and are
\* fresh; the model numbers the tasks 1, 2, ... in creation order.
\* state.tasks is kept as the sequence of its values in key insertion order
\* (the order of Object.values).  nextExecuteAt = 0 and interval = 0 stand
\* for undefined (both are tested for truthiness only).  name, payload,
\* executeAt, lastExecutedAt and the timestamps of the history are not read
\* by any method and are left out.  The alarms scheduled through
\* this.schedule are kept as the set of their times.  The methods that only
\* read the state (getScheduledTasks, getTask, getExecutionHistory, getStats)
\* have no action.

\* does task.callback name a method of the agent?
Callbacks == {"handler", "missing"}
\* executeAt arguments of scheduleTask, intervalMs arguments of
\* scheduleRecurringTask
ExecuteTimes == {1}
Intervals == {1}

\* a step of the SchedulerAgent: the other agents' state stays as it is
SchedOnly == UNCHANGED <<fleetVars, queueVars>>

\* the part of the agent's state that setState replaces
SchedState == [tasks |-> schedTasks, history |-> executionHistory, stats |-> schedStats]

HasTask(ts, id) == \E i \in DOMAIN ts : ts[i].id = id
TaskById(ts, id) == ts[CHOOSE i \in DOMAIN ts : ts[i].id = id]

\* {...tasks, [task.id]: task}: an existing key keeps its place
PutTask(ts, task) ==
    IF HasTask(ts, task.id)
    THEN [i \in DOMAIN ts |-> IF ts[i].id = task.id THEN task ELSE ts[i]]
    ELSE Append(ts, task)

\* const {[taskId]: removed, ...remaining} = tasks
WithoutTask(ts, id) == SelectSeq(ts, LAMBDA t : t.id # id)

\* scheduleNextAlarm: the alarm times after it ran
ScheduleNextAlarm(ts, al) ==
    LET enabledTasks == {i \in DOMAIN ts : ts[i].enabled /\ ts[i].nextExecuteAt # 0}
    IN IF enabledTasks = {} THEN al
       ELSE al \cup {CHOOSE t \in {ts[i].nextExecuteAt : i \in enabledTasks} :
                        \A i \in enabledTasks : t <= ts[i].nextExecuteAt}

\* recordExecution: history and stats after it
RecordExecution(S, taskId, success) ==
    LET appended == Append(S.history, [taskId |-> taskId, success |-> success])
        trimmed == IF Len(appended) > HistoryLimit
                   THEN SubSeq(appended, Len(appended) - HistoryLimit + 1, Len(appended))
                   ELSE appended
    IN [S EXCEPT !.history = trimmed,
                 !.stats.totalExecutions = @ + 1,
                 !.stats.successfulExecutions = @ + (IF success THEN 1 ELSE 0),
                 !.stats.failedExecutions = @ + (IF success THEN 0 ELSE 1)]

\* updateTaskAfterExecution: the record it derives from its argument `task`
UpdatedTask(task, t) ==
    LET counted == [task EXCEPT !.executionCount = @ + 1]
    IN IF task.scheduleType = "once"
       THEN [counted EXCEPT !.enabled = FALSE, !.nextExecuteAt = 0]
       ELSE IF task.scheduleType = "recurring" /\ task.interval # 0
       THEN [counted EXCEPT !.nextExecuteAt = t + task.interval]
       ELSE counted

\* updateTaskAfterExecution: the state after it wrote that record
UpdateTaskAfterExecution(S, task, t) ==
    [S EXCEPT !.tasks = PutTask(S.tasks, UpdatedTask(task, t))]

\* executeScheduledTask from the point where the outcome is known
FinishExecution(S, task, success, t) ==
    UpdateTaskAfterExecution(RecordExecution(S, task.id, success), task, t)

RECURSIVE RunDue(_, _, _)
\* the loop over the due tasks, up to the first task whose callback is
\* awaited: the tasks before it fail with 'Callback method not found'
RunDue(S, due, t) ==
    IF due = <<>> \/ Head(due).callback = "handler"
    THEN [state |-> S, due |-> due]
    ELSE RunDue(FinishExecution(S, Head(due), FALSE, t), Tail(due), t)

RECURSIVE PendingExecutions(_)
\* executions the runs at an await still have to make
PendingExecutions(runs) ==
    IF runs = <<>> THEN 0 ELSE Len(Head(runs).due) + PendingExecutions(Tail(runs))

\* room for n more executions in this behaviour
CanExecute(n) ==
    schedStats.totalExecutions + PendingExecutions(schedRuns) + n <= MaxExecutions

\* the variables after a segment that leaves the state S, the runs and alarms
SchedCommit(S, runs, al) ==
    /\ schedTasks' = S.tasks
    /\ executionHistory' = S.history
    /\ schedStats' = S.stats
    /\ schedRuns' = runs
    /\ alarms' = al
    /\ UNCHANGED now

\* the task record scheduleTask / scheduleRecurringTask create
NewScheduledTask(id, callback, type, interval, at) ==
    [id |-> id, callback |-> callback, scheduleType |-> type, interval |-> interval,
     enabled |-> TRUE, nextExecuteAt |-> at, executionCount |-> 0]

\* the state after scheduleTask / scheduleRecurringTask stored `task`
WithNewTask(S, task) ==
    [S EXCEPT !.tasks = PutTask(S.tasks, task),
              !.stats.totalTasks = @ + 1,
              !.stats.activeTasks = @ + 1]

\* scheduleTask(name, callback, executeAt, payload)
ScheduleTask(callback, executeAt) ==
    /\ schedStats.totalTasks < MaxScheduled
    /\ LET taskId == schedStats.totalTasks + 1
           S == WithNewTask(SchedState, NewScheduledTask(taskId, callback, "once", 0, executeAt))
       IN /\ SchedCommit(S, schedRuns, ScheduleNextAlarm(S.tasks, alarms))
          /\ reply' = Returned("scheduleTask", executeAt, taskId)

\* scheduleRecurringTask(name, callback, intervalMs, payload)
ScheduleRecurringTask(callback, intervalMs) ==
    /\ schedStats.totalTasks < MaxScheduled
    /\ LET taskId == schedStats.totalTasks + 1
           S == WithNewTask(SchedState,
                    NewScheduledTask(taskId, callback, "recurring", intervalMs, now + intervalMs))
       IN /\ SchedCommit(S, schedRuns, ScheduleNextAlarm(S.tasks, alarms))
          /\ reply' = Returned("scheduleRecurringTask", intervalMs, taskId)


\* cancelTask(taskId)
CancelTask(taskId) ==
    IF ~HasTask(schedTasks, taskId)
    THEN /\ reply' = Returned("cancelTask", taskId, FALSE)
         /\ UNCHANGED schedVars
    ELSE LET S == [SchedState EXCEPT !.tasks = WithoutTask(@, taskId),
                                     !.stats.activeTasks = @ - 1]
         IN /\ SchedCommit(S, schedRuns, ScheduleNextAlarm(S.tasks, alarms))
            /\ reply' = Returned("cancelTask", taskId, TRUE)

\* setTaskEnabled(taskId, enabled)
SetTaskEnabled(taskId, enabled) ==
    IF ~HasTask(schedTasks, taskId)
    THEN /\ reply' = Returned("setTaskEnabled", taskId, FALSE)
         /\ UNCHANGED schedVars
    ELSE LET task == TaskById(schedTasks, taskId)
             S == [SchedState EXCEPT !.tasks = PutTask(@, [task EXCEPT !.enabled = enabled])]
         IN /\ SchedCommit(S, schedRuns, ScheduleNextAlarm(S.tasks, alarms))
            /\ reply' = Returned("setTaskEnabled", taskId, TRUE)

\* a run of `handler` goes on from the state S with the tasks `due` left, up
\* to its next await or its end; `others` are the other runs at an await,
\* `al` the alarms.  At its end the alarm handler calls scheduleNextAlarm and
\* executeTask returns.
ContinueRun(handler, taskId, S, due, others, al) ==
    LET r == RunDue(S, due, now)
    IN IF r.due # <<>>
       THEN /\ SchedCommit(r.state, Append(others, [handler |-> handler, taskId |-> taskId, due |-> r.due]), al)
            /\ reply' = NoReply
       ELSE /\ SchedCommit(r.state, others,
                           IF handler = "alarm" THEN ScheduleNextAlarm(r.state.tasks, al) ELSE al)
            /\ reply' = IF handler = "executeTask"
                        THEN Returned("executeTask", taskId, "void")
                        ELSE NoReply

\* executeTask(taskId), up to its first await
ExecuteTask(taskId) ==
    IF ~HasTask(schedTasks, taskId)
    THEN /\ reply' = Threw("executeTask", taskId, "Task not found")
         /\ UNCHANGED schedVars
    ELSE /\ CanExecute(1)
         /\ ContinueRun("executeTask", taskId, SchedState,
                        <<TaskById(schedTasks, taskId)>>, schedRuns, alarms)

\* alarm: the tasks due at time t
DueTasks(ts, t) ==
    SelectSeq(ts, LAMBDA task : task.enabled /\ task.nextExecuteAt # 0 /\ task.nextExecuteAt <= t)

\* the alarm scheduled for time `at` fires: the handler up to its first await
Alarm(at) ==
    /\ at \in alarms
    /\ at <= now
    /\ CanExecute(Len(DueTasks(schedTasks, now)))
    /\ ContinueRun("alarm", 0, SchedState, DueTasks(schedTasks, now), schedRuns, alarms \ {at})

\* the runs without the k-th
WithoutRun(runs, k) == SubSeq(runs, 1, k - 1) \o SubSeq(runs, k + 1, Len(runs))

\* the callback awaited by run k settles; the run goes on
CallbackSettles(k, success) ==
    LET run == schedRuns[k]
    IN ContinueRun(run.handler, run.taskId,
                   FinishExecution(SchedState, Head(run.due), success, now),
                   Tail(run.due), WithoutRun(schedRuns, k), alarms)

\* `await method.call(this, task.payload)` resolves
CallbackResolves(k) == CallbackSettles(k, TRUE)

\* `await method.call(this, task.payload)` throws
CallbackThrows(k) == CallbackSettles(k, FALSE)

\* time passes
Tick ==
    /\ now < MaxTime
    /\ now' = now + 1
    /\ reply' = NoReply
    /\ UNCHANGED <<schedTasks, executionHistory, schedStats, schedRuns, alarms>>

SchedNext ==
    \/ SchedOnly /\ \E c \in Callbacks, t \in ExecuteTimes : ScheduleTask(c, t)
    \/ SchedOnly /\ \E c \in Callbacks, i \in Intervals : ScheduleRecurringTask(c, i)
    \/ SchedOnly /\ \E id \in 1..MaxScheduled : CancelTask(id)
    \/ SchedOnly /\ \E id \in 1..MaxScheduled, e \in BOOLEAN : SetTaskEnabled(id, e)
    \/ SchedOnly /\ \E id \in 1..MaxScheduled : ExecuteTask(id)
    \/ SchedOnly /\ \E at \in alarms : Alarm(at)
    \/ SchedOnly /\ \E k \in DOMAIN schedRuns : CallbackResolves(k)
    \/ SchedOnly /\ \E k \in DOMAIN schedRuns : CallbackThrows(k)
    \/ SchedOnly /\ Tick

SchedSpec == Init /\ [][SchedNext]_vars

\* ================================================================= claims
\* executions of batch b started by its loop and not yet resolved
InFlight(b) == {w \in DOMAIN calls : calls[w].batchId = b /\ calls[w].pc # "done"}

\* WorkerHandle records with status active
ActiveHandles == {w \in DOMAIN workers : workers[w].status = "active"}

\* C1: while processBatch drains a batch under maxConcurrentWorkers = C >= 1,
\* held fixed, at most C executions of that batch are in flight in every
\* reachable state, whatever the order in which executions resolve.
C1_InFlightBound ==
    \A b \in DOMAIN batches :
        config.maxConcurrentWorkers >= 1
            => Cardinality(InFlight(b)) <= config.maxConcurrentWorkers

\* the bound bites: C executions in flight while tasks wait in the backlog
C1_Witness ==
    \E b \in DOMAIN batches :
        /\ config.maxConcurrentWorkers >= 1
        /\ Cardinality(InFlight(b)) = config.maxConcurrentWorkers
        /\ loops[b].taskQueue # <<>>
        /\ Len(batches[b].results) >= 1

\* C2: with maxConcurrentWorkers = C held fixed, never more than C
\* WorkerHandles hold status active, also while two submitBatch calls are
\* being processed at the same time.
C2_ActiveHandlesBound ==
    config.maxConcurrentWorkers >= 1
        => Cardinality(ActiveHandles) <= config.maxConcurrentWorkers

\* C3: for every batch, in every reachable state,
\* completedTasks + failedTasks <= totalTasks.
C3_CountInvariant ==
    \A b \in DOMAIN batches :
        batches[b].completedTasks + batches[b].failedTasks <= batches[b].totalTasks

\* a cancelled batch whose in-flight executions resolved afterwards, one
\* succeeding and one failing with its retry admitted
C3_Witness ==
    \E b \in DOMAIN batches :
        /\ batches[b].completedTasks >= 1
        /\ batches[b].failedTasks >= 1
        /\ batches[b].totalTasks > Len(loops[b].taskQueue) + Cardinality({w \in DOMAIN calls : calls[w].batchId = b})
        /\ batches[b].status = "failed"
        /\ loops[b].pc = "await"

\* C4: once a batch's status is completed, failed or partial, no later step
\* changes it to a different value.
C4_TerminalStatusNeverChanges ==
    [][\A b \in DOMAIN batches :
          batches[b].status \in Terminal => batches'[b].status = batches[b].status]_vars

\* C5: if every worker execution eventually resolves and
\* maxConcurrentWorkers >= 1, every submitted batch eventually reaches
\* completed, failed or partial, for every retry configuration and every
\* pattern of task failures.
C5_EveryBatchEventuallyTerminal ==
    \A b \in 1..MaxBatches :
        [](b \in DOMAIN batches /\ config.maxConcurrentWorkers >= 1
              => <>(b \in DOMAIN batches /\ batches[b].status \in Terminal))

\* tasks of batch b as recorded in state.batches[b].tasks: the submitted ones
\* carry retries = 0, the re-queued ones retries >= 1
RecordedTasks(b) == {batches[b].tasks[i] : i \in DOMAIN batches[b].tasks}
SubmittedTasks(b) == {t \in RecordedTasks(b) : t.retries = 0}

\* C6: a task re-queued after a failure (retryFailedTasks true, attempt count
\* below maxRetries) enters the backlog the running dispatch loop drains, so
\* that the loop starts a worker for it: every task recorded for a batch
\* either waits in the loop's backlog or has been handed to a worker.
C6_RetryEntersLiveBacklog ==
    \A b \in DOMAIN batches :
        \A t \in RecordedTasks(b) :
            \/ \E i \in DOMAIN loops[b].taskQueue : loops[b].taskQueue[i] = t
            \/ \E w \in DOMAIN calls : calls[w].batchId = b /\ calls[w].task = t

\* C7: a batch of one task that fails k times (1 <= k <= maxRetries) and then
\* succeeds, with retryFailedTasks = true: when the batch is done (its
\* dispatch loop has ended) its results hold exactly one successful
\* TaskResult, recorded last, and totalTasks = 1 + k.
C7_RetryScenario ==
    \A b \in DOMAIN batches :
        \A t \in SubmittedTasks(b) :
            (/\ SubmittedTasks(b) = {t}
             /\ config.retryFailedTasks
             /\ 1 <= t.failsFirst
             /\ t.failsFirst <= config.maxRetries
             /\ loops[b].pc = "done")
            => LET results == batches[b].results
               IN /\ Cardinality({i \in DOMAIN results : results[i].success}) = 1
                  /\ results[Len(results)].success
                  /\ batches[b].totalTasks = 1 + t.failsFirst

\* entries of state.batches[b].tasks that were re-queued by the catch path
Requeued(b) == {i \in DOMAIN batches[b].tasks : batches[b].tasks[i].retries >= 1}

\* spawnWorker calls made for the task with id `id` of batch b
ExecutionsOf(b, id) ==
    {w \in DOMAIN calls : calls[w].batchId = b /\ calls[w].task.id = id}

\* C8: a retry is admitted only when retryFailedTasks is true and the failed
\* task's attempt count is below maxRetries; so per submitted task at most
\* maxRetries retries are admitted, totalTasks grows by at most maxRetries per
\* submitted task, and the task is executed at most maxRetries + 1 times.
C8_RetryBound ==
    \A b \in DOMAIN batches :
        LET tasks == batches[b].tasks
            n == Cardinality(SubmittedTasks(b))
        IN /\ \A i \in Requeued(b) :
                 config.retryFailedTasks /\ tasks[i].retries - 1 < config.maxRetries
           /\ \A t \in SubmittedTasks(b) :
                 /\ Cardinality({i \in Requeued(b) : tasks[i].id = t.id}) <= config.maxRetries
                 /\ Cardinality(ExecutionsOf(b, t.id)) <= config.maxRetries + 1
           /\ batches[b].totalTasks <= n + n * config.maxRetries

\* one failure was re-queued and another failure of the same batch was too,
\* with the dispatch loop at its end
C8_Witness ==
    \E b \in DOMAIN batches :
        /\ Cardinality(Requeued(b)) >= 2
        /\ batches[b].failedTasks >= 2
        /\ loops[b].pc = "done"

\* the first attempt of a submitted task succeeds / fails on the worker side
Succeeding(b) == {t \in SubmittedTasks(b) : ~AttemptFails(t)}
Failing(b) == {t \in SubmittedTasks(b) : AttemptFails(t)}

\* the status C9 and C10 expect from the tasks' outcomes
ExpectedStatus(b) ==
    IF Failing(b) = {} THEN "completed"
    ELSE IF Succeeding(b) = {} THEN "failed"
    ELSE "partial"

\* the counts of a batch run without retries, once its dispatch loop has ended
C9_CountsWithoutRetry ==
    \A b \in DOMAIN batches :
        (/\ ~config.retryFailedTasks
         /\ SubmittedTasks(b) # {}
         /\ loops[b].pc = "done")
        => /\ batches[b].totalTasks = Cardinality(SubmittedTasks(b))
           /\ batches[b].completedTasks = Cardinality(Succeeding(b))
           /\ batches[b].failedTasks = Cardinality(Failing(b))
           /\ Succeeding(b) = {} => batches[b].status = "failed"

\* the status a batch run without retries has when its dispatch loop ends
C9_StatusAtEnd ==
    \A b \in DOMAIN loops :
        (/\ ~config.retryFailedTasks
         /\ SubmittedTasks(b) # {}
         /\ Failing(b) # {}
         /\ loops[b].pc # "done"
         /\ loops'[b].pc = "done")
        => batches'[b].status = ExpectedStatus(b)

\* C9: a batch of N >= 1 tasks run with retryFailedTasks = false: once all
\* executions have resolved (the dispatch loop has ended), totalTasks = N,
\* completedTasks = number of tasks that succeeded, failedTasks = number that
\* failed; the loop ends the batch with status failed when all N failed and
\* partial when some succeeded and some failed; for every C >= 1 and every
\* resolution order.
C9_NoRetryOutcome == [](C9_CountsWithoutRetry) /\ [][C9_StatusAtEnd]_vars

\* a mixed batch under C = 1 that ended partial, and was not cancelled since
C9_Witness ==
    \E b \in DOMAIN batches :
        /\ ~config.retryFailedTasks
        /\ config.maxConcurrentWorkers = 1
        /\ loops[b].pc = "done"
        /\ Succeeding(b) # {}
        /\ Failing(b) # {}
        /\ batches[b].status = "partial"

\* C10: a batch of N >= 1 tasks whose executions all succeed ends, for every
\* C >= 1 and every retry configuration, with status completed,
\* completedTasks = N, failedTasks = 0, totalTasks = N, and getBatchStatus
\* reports progress = 1.
C10_AllSuccess ==
    \A b \in DOMAIN batches :
        (/\ SubmittedTasks(b) # {}
         /\ Failing(b) = {}
         /\ loops[b].pc = "done")
        => LET view == GetBatchStatus(b)
               n == Cardinality(SubmittedTasks(b))
           IN /\ view.status = "completed"
              /\ view.completedTasks = n
              /\ view.failedTasks = 0
              /\ view.totalTasks = n
              /\ view.progress.num = view.progress.den

\* three successful tasks drained one at a time
C10_Witness ==
    \E b \in DOMAIN batches :
        /\ Cardinality(SubmittedTasks(b)) >= 2
        /\ Failing(b) = {}
        /\ config.maxConcurrentWorkers = 1
        /\ config.retryFailedTasks
        /\ loops[b].pc = "done"
        /\ batches[b].status = "completed"

\* the status the counts c = completedTasks and f = failedTasks stand for
StatusOfCounts(c, f) ==
    IF f = 0 THEN "completed" ELSE IF c = 0 THEN "failed" ELSE "partial"

\* the step in which the dispatch loop of batch b ends
LoopEnds(b) ==
    /\ b \in DOMAIN loops'
    /\ loops'[b].pc = "done"
    /\ b \in DOMAIN loops => loops[b].pc # "done"

\* C11: whenever a batch's status is terminal, it is the value given by its
\* counts (completed if failedTasks = 0, else failed if completedTasks = 0,
\* else partial), in every reachable state, also for batches made terminal by
\* cancelBatch and for the empty batch.
C11_TerminalStatusFromCounts ==
    \A b \in DOMAIN batches :
        batches[b].status \in Terminal
            => batches[b].status = StatusOfCounts(batches[b].completedTasks, batches[b].failedTasks)

\* a terminal status is the value given by the counts, or the failed that
\* cancelBatch writes whatever the counts are
C11_FromCountsOrCancelled ==
    \A b \in DOMAIN batches :
        batches[b].status \in Terminal
            => \/ batches[b].status = StatusOfCounts(batches[b].completedTasks, batches[b].failedTasks)
               \/ batches[b].status = "failed"

\* the status finalizeBatch writes at the end of a dispatch loop whose tasks
\* are all processed is the value given by the counts
C11_FinalizedFromCounts ==
    \A b \in DOMAIN batches' :
        LoopEnds(b) /\ batches'[b].completedTasks + batches'[b].failedTasks >= batches'[b].totalTasks
            => batches'[b].status = StatusOfCounts(batches'[b].completedTasks, batches'[b].failedTasks)

\* C11 (amended): the status written by finalizeBatch is the value given by
\* the counts, and a terminal status is either that value or the failed
\* written by cancelBatch, which does not look at the counts.
C11_Amended == [](C11_FromCountsOrCancelled) /\ [][C11_FinalizedFromCounts]_vars

\* submitBatch returns for a batch that finalizeBatch ended once, with
\* successes and failures among its counts
C11_Witness ==
    /\ reply.call = "submitBatch"
    /\ batches[reply.value].status = "partial"
    /\ batches[reply.value].completedAt = 1

\* Batch b was cancelled while executions of it were in flight, and they have
\* not all resolved yet: finalizeBatch writes a status only after the last
\* execution of the batch has settled, so a batch that is failed with an
\* execution in flight got its status from a cancelBatch that returned true.
CancelledInFlight(b) == batches[b].status = "failed" /\ InFlight(b) # {}

\* C12: after cancelBatch(b) has returned true while executions of b are in
\* flight, completedTasks and failedTasks of b never change again: the later
\* resolution of those executions does not alter the counts.
C12_CancelledCountsFrozen ==
    [][\A b \in DOMAIN batches :
          CancelledInFlight(b)
              => /\ batches'[b].completedTasks = batches[b].completedTasks
                 /\ batches'[b].failedTasks = batches[b].failedTasks]_vars

\* C13: cancelBatch(b) returns false and leaves the whole state unchanged
\* when b is unknown or b's status is already terminal (completed, failed or
\* partial); otherwise it sets b's status to failed and completedAt in the
\* same step, without waiting for any in-flight execution, and returns true.
C13_CancelBatchContract ==
    [][\A b \in 1..MaxBatches :
          reply'.call = "cancelBatch" /\ reply'.arg = b
              => IF b \notin DOMAIN batches \/ batches[b].status \in Terminal
                 THEN /\ reply'.value = FALSE
                      /\ UNCHANGED <<config, batches, workers, stats, loops, calls>>
                 ELSE /\ reply'.value = TRUE
                      /\ batches'[b].status = "failed"
                      /\ batches'[b].completedAt # batches[b].completedAt
                      /\ InFlight(b) # {} => CancelledInFlight(b)']_vars

\* C14: finalization is idempotent: when finalizeBatch runs for a batch whose
\* status is already terminal (the end of the dispatch loop of a batch that
\* was cancelled), it leaves the batch's status and completedAt as recorded.
C14_FinalizeIdempotent ==
    [][\A b \in DOMAIN batches :
          LoopEnds(b) /\ batches[b].status \in Terminal
              => /\ batches'[b].status = batches[b].status
                 /\ batches'[b].completedAt = batches[b].completedAt]_vars

\* C15: scaleWorkers(n) with n < 1 fails with an error and leaves config,
\* batches, workers and stats unchanged; with n >= 1 it sets
\* maxConcurrentWorkers to n and changes nothing else.
C15_ScaleWorkersContract ==
    [][\A n \in ScaleArgs :
          reply'.call = "scaleWorkers" /\ reply'.arg = n
              => IF n < 1
                 THEN /\ reply'.error # "none"
                      /\ UNCHANGED <<config, batches, workers, stats, loops, calls>>
                 ELSE /\ reply'.error = "none"
                      /\ config' = [config EXCEPT !.maxConcurrentWorkers = n]
                      /\ UNCHANGED <<batches, workers, stats, loops, calls>>]_vars

\* scaleWorkers(0) has just been refused while a batch has an execution in
\* flight and tasks waiting
C15_Witness ==
    /\ reply.call = "scaleWorkers"
    /\ reply.arg = 0
    /\ reply.error # "none"
    /\ \E b \in DOMAIN batches : InFlight(b) # {} /\ loops[b].taskQueue # <<>>

\* workers the step registers for batch b
Started(b) == {w \in DOMAIN calls' \ DOMAIN calls : calls'[w].batchId = b}

\* C16: a scaleWorkers(n) call that interleaves with a running dispatch loop
\* changes the bound used for that batch's later dispatch decisions: after
\* the call the loop starts a new execution only while fewer than n
\* executions of the batch are in flight.
C16_ScaleAppliesToRunningLoop ==
    [][\A b \in DOMAIN batches :
          Started(b) # {}
              => Cardinality(InFlight(b)) + Cardinality(Started(b))
                     <= config.maxConcurrentWorkers]_vars

\* C17: a worker execution that resolves with a TaskResult whose success is
\* false is handled like one that raises an error: in both cases the worker
\* handle ends in status failed and the retry policy is applied to the task
\* (re-queued exactly when retryFailedTasks is true and its attempt count is
\* below maxRetries).
C17_FailureResultLikeError ==
    [][\A w \in DOMAIN calls :
          (/\ calls[w].pc # "done"
           /\ calls'[w].pc = "done"
           /\ AttemptFails(calls[w].task))
          => LET b == calls[w].batchId
             IN /\ workers'[w].status = "failed"
                /\ (config.retryFailedTasks /\ calls[w].task.retries < config.maxRetries)
                       <=> batches'[b].totalTasks = batches[b].totalTasks + 1]_vars

\* every execution of batch b that failed and has settled left one
\* TaskResult with success = false in the batch's results
C18_FailuresRecorded ==
    \A b \in DOMAIN batches :
        LET results == batches[b].results
        IN Cardinality({i \in DOMAIN results : ~results[i].success})
               = Cardinality({w \in DOMAIN calls :
                                 /\ calls[w].batchId = b
                                 /\ calls[w].pc = "done"
                                 /\ AttemptFails(calls[w].task)})

\* the dispatch loop ends only with its backlog empty, and submitBatch then
\* returns the batch id
C18_ReturnsBatchId ==
    \A b \in DOMAIN batches' :
        LoopEnds(b)
            => /\ loops'[b].taskQueue = <<>>
               /\ reply' = Returned("submitBatch", 0, b)

\* C18: a failure of getWorkerInstance or of a task execution never aborts
\* the batch and never makes submitBatch fail: the failure becomes a recorded
\* TaskResult with success = false, the tasks still in the backlog are
\* dispatched afterwards, and submitBatch returns the batch id (given that
\* every started execution eventually resolves).
C18_FailureDoesNotAbort ==
    /\ [](C18_FailuresRecorded)
    /\ [][C18_ReturnsBatchId]_vars
    /\ \A b \in 1..MaxBatches :
          [](b \in DOMAIN batches /\ batches[b].failedTasks >= 1
                => <>(b \in DOMAIN loops /\ loops[b].pc = "done"))

\* submitBatch returns for a batch whose first execution failed and whose
\* later tasks were dispatched one at a time after it
C18_Witness ==
    /\ reply.call = "submitBatch"
    /\ config.maxConcurrentWorkers = 1
    /\ Len(batches[reply.value].results) >= 2
    /\ ~batches[reply.value].results[1].success

\* C19: getBatchStatus and getBatchResults called with a batch id that no
\* submitBatch produced fail with a not-found error and leave the state
\* unchanged; for a known id they return the batch's current counts and
\* results without changing any state.
C19_QueriesContract ==
    [][\A b \in 1..MaxBatches :
          reply'.call \in {"getBatchStatus", "getBatchResults"} /\ reply'.arg = b
              => /\ UNCHANGED <<config, batches, workers, stats, loops, calls>>
                 /\ IF b \notin DOMAIN batches
                    THEN reply'.error = "Batch not found"
                    ELSE /\ reply'.error = "none"
                         /\ IF reply'.call = "getBatchResults"
                            THEN reply'.value = batches[b].results
                            ELSE /\ reply'.value.status = batches[b].status
                                 /\ reply'.value.totalTasks = batches[b].totalTasks
                                 /\ reply'.value.completedTasks = batches[b].completedTasks
                                 /\ reply'.value.failedTasks = batches[b].failedTasks]_vars

\* getBatchStatus has just answered for a batch that is being processed and
\* has a result recorded
C19_Witness ==
    /\ reply.call = "getBatchStatus"
    /\ reply.error = "none"
    /\ reply.value.status = "processing"
    /\ reply.value.completedTasks + reply.value.failedTasks >= 1

\* C20: submitBatch with an empty task list creates a batch with
\* totalTasks = 0 that is in a terminal status by the time submitBatch
\* returns, and creates no WorkerHandle.
C20_EmptyBatch ==
    \A b \in DOMAIN batches :
        batches[b].tasks = <<>>
            => /\ batches[b].totalTasks = 0
               /\ batches[b].status \in Terminal
               /\ loops[b].pc = "done"
               /\ \A w \in DOMAIN workers : w[1] # b

\* submitBatch has just returned for an empty batch, submitted while
\* maxConcurrentWorkers was 0
C20_Witness ==
    /\ reply.call = "submitBatch"
    /\ batches[reply.value].tasks = <<>>
    /\ batches[reply.value].status = "completed"
    /\ config.maxConcurrentWorkers = 0

\* mainQueue without its k-th item
WithoutIndex(items, k) == SubSeq(items, 1, k - 1) \o SubSeq(items, k + 1, Len(items))

\* C21: QueueAgent.dequeueItem removes and returns an item whose priority is
\* the maximum over all items currently in the queue, after any sequence of
\* enqueue, dequeueItem, moveToDeadLetter and clearQueue calls, and returns
\* null without changing state when the queue is empty.
C21_DequeueHighestPriority ==
    [][reply'.call = "dequeueItem"
          => IF mainQueue = <<>>
             THEN reply'.value = NoItem /\ UNCHANGED queueVars
             ELSE /\ \A i \in DOMAIN mainQueue : mainQueue[i].priority <= reply'.value.priority
                  /\ \E k \in DOMAIN mainQueue :
                        /\ mainQueue[k] = reply'.value
                        /\ mainQueue' = WithoutIndex(mainQueue, k)
                  /\ deadLetterQueue' = deadLetterQueue]_vars

\* dequeueItem has just returned an item that was not the first one
\* enqueued, with items left in the queue and in the dead letter queue
C21_Witness ==
    /\ reply.call = "dequeueItem"
    /\ reply.value.id >= 2
    /\ mainQueue # <<>>
    /\ mainQueue[1].id < reply.value.id
    /\ deadLetterQueue # <<>>

\* C22: a failed item can be dead-lettered by the documented consumer
\* pattern: after dequeueItem has returned item X, moveToDeadLetter(X.id)
\* returns true and X is then contained in the dead letter queue.
C22_DeadLetterAfterDequeue ==
    [][(/\ reply.call = "dequeueItem"
        /\ reply.value # NoItem
        /\ reply'.call = "moveToDeadLetter"
        /\ reply'.arg = reply.value.id)
       => /\ reply'.value = TRUE
          /\ \E i \in DOMAIN deadLetterQueue' : deadLetterQueue'[i] = reply.value]_vars

\* the sizes in stats are the lengths of the two queues
C23_SizesMatch ==
    /\ queueStats.currentSize = Len(mainQueue)
    /\ queueStats.deadLetterSize = Len(deadLetterQueue)

\* clearQueue leaves the dead letter queue and its size alone
C23_ClearKeepsDeadLetters ==
    reply'.call = "clearQueue"
        => /\ deadLetterQueue' = deadLetterQueue
           /\ queueStats'.deadLetterSize = queueStats.deadLetterSize
           /\ mainQueue' = <<>>

\* C23: in every reachable QueueAgent state, stats.currentSize equals the
\* length of the main queue and stats.deadLetterSize equals the length of
\* the dead letter queue, and clearQueue leaves the dead letter queue and
\* deadLetterSize unchanged.
C23_QueueStats == [](C23_SizesMatch) /\ [][C23_ClearKeepsDeadLetters]_vars

\* clearQueue has just dropped an item while the dead letter queue holds one
C23_Witness ==
    /\ reply.call = "clearQueue"
    /\ Len(deadLetterQueue) >= 1
    /\ queueStats.totalEnqueued > queueStats.totalDequeued + Len(deadLetterQueue)

\* tasks in the schedule whose enabled flag is true
EnabledTasks == {i \in DOMAIN schedTasks : schedTasks[i].enabled}

\* C24: in every reachable SchedulerAgent state, stats.activeTasks equals the
\* number of tasks in the schedule whose enabled flag is true, after any
\* sequence of scheduleTask, scheduleRecurringTask, setTaskEnabled,
\* cancelTask, executeTask and alarm runs.
C24_ActiveTasksCount == schedStats.activeTasks = Cardinality(EnabledTasks)

\* C25: within one batch, tasks are taken from the backlog in submission
\* order: for submitted tasks at positions i < j the WorkerHandle for task i
\* is registered before the one for task j, whatever the tasks' priority
\* fields (which the code never reads).  The k-th WorkerHandle registered
\* for a batch is the one for the task submitted at position k.
C25_FifoDispatch ==
    \A w \in DOMAIN workers :
        /\ workers[w].taskId = w[2]
        /\ calls[w].task = batches[w[1]].tasks[w[2]]
        /\ \A k \in 1..w[2] : <<w[1], k>> \in DOMAIN workers

\* under C = 1 the second task of a batch was handed to a worker after the
\* first one had resolved, with the third still in the backlog
C25_Witness ==
    \E b \in DOMAIN batches :
        /\ <<b, 2>> \in DOMAIN workers
        /\ workers[<<b, 2>>].status = "spawning"
        /\ workers[<<b, 1>>].status \in {"completed", "failed"}
        /\ loops[b].taskQueue # <<>>

\* the executions that settle in the step
Settling == {w \in DOMAIN calls : calls[w].pc # "done" /\ calls'[w].pc = "done"}

\* C26: a batch's results list is append-only and ordered by resolution:
\* each resolved execution appends its TaskResult at the end, and entries
\* already recorded are never removed or changed.
C26_ResultsAppendOnly ==
    [][\A b \in DOMAIN batches :
          LET old == batches[b].results
              new == batches'[b].results
              settled == {w \in Settling : calls[w].batchId = b}
          IN /\ Len(new) = Len(old) + Cardinality(settled)
             /\ SubSeq(new, 1, Len(old)) = old
             /\ \A w \in settled : new[Len(new)].taskId = calls[w].task.id]_vars

\* the second task of a batch resolved before the first: the results are in
\* the order of resolution, not of submission
C26_Witness ==
    \E b \in DOMAIN batches :
        /\ Len(batches[b].results) >= 2
        /\ batches[b].results[1].taskId = 2
        /\ batches[b].results[2].taskId = 1

\* the WorkerHandles of ws whose status is one of `statuses`
HandlesIn(ws, statuses) == {w \in DOMAIN ws : ws[w].status \in statuses}

\* C27 (as stated): stats.activeWorkers is incremented when a WorkerHandle
\* becomes active and decremented when it becomes completed or failed, so in
\* every reachable state it equals the number of WorkerHandles whose status
\* is active.
C27_CountsActiveHandles ==
    stats.activeWorkers = Cardinality(HandlesIn(workers, {"active"}))

\* C27 (amended): stats.activeWorkers is incremented when a WorkerHandle is
\* registered (status spawning), left alone when the handle becomes active,
\* and decremented when it becomes completed or failed; so it equals the
\* number of WorkerHandles whose status is spawning or active.
C27_Amended ==
    [][LET registered == DOMAIN workers' \ DOMAIN workers
           ended == {w \in DOMAIN workers :
                        /\ workers[w].status \in {"spawning", "active"}
                        /\ workers'[w].status \in {"completed", "failed"}}
       IN /\ stats'.activeWorkers =
                 stats.activeWorkers + Cardinality(registered) - Cardinality(ended)
          /\ \A w \in registered : workers'[w].status = "spawning"
          /\ stats'.activeWorkers =
                 Cardinality(HandlesIn(workers', {"spawning", "active"}))]_vars

\* one handle still spawning, one active, one ended: the counter is 2
C27_Witness ==
    /\ stats.activeWorkers = 2
    /\ HandlesIn(workers, {"spawning"}) # {}
    /\ HandlesIn(workers, {"active"}) # {}
    /\ HandlesIn(workers, {"completed", "failed"}) # {}

\* the number of tasks still in the backlog of batch b's dispatch loop, given
\* loops ls and batch records bs (a batch without a loop has not started)
BacklogSize(ls, bs, b) ==
    IF b \in DOMAIN ls THEN Len(ls[b].taskQueue) ELSE Len(bs[b].tasks)

\* what holds of the WorkerHandles in every step, given the set of allowed
\* status changes: one new handle (spawning) per task that leaves a backlog,
\* active only once the executor was obtained, completed or failed exactly
\* when the execution settles, and nothing after that
HandleLifecycle(allowed) ==
    LET registered == DOMAIN workers' \ DOMAIN workers
    IN /\ DOMAIN workers \subseteq DOMAIN workers'
       /\ \A b \in DOMAIN batches' :
             Cardinality({w \in registered : w[1] = b}) =
                 BacklogSize(loops, batches', b) - BacklogSize(loops', batches', b)
       /\ \A w \in registered :
             /\ workers'[w].status = "spawning"
             /\ calls'[w].pc = "getWorkerInstance"
       /\ \A w \in DOMAIN workers :
             /\ workers'[w].status # workers[w].status
                   => <<workers[w].status, workers'[w].status>> \in allowed
             /\ workers'[w].status = "active" /\ workers[w].status # "active"
                   => calls[w].pc = "getWorkerInstance" /\ calls'[w].pc = "executeTask"
             /\ w \in Settling
                   <=> /\ workers[w].status \notin {"completed", "failed"}
                       /\ workers'[w].status \in {"completed", "failed"}
             /\ workers[w].status \in {"completed", "failed"}
                   => workers'[w] = workers[w]

\* C28 (as stated): every dispatched task gets its own new WorkerHandle,
\* whose status moves only spawning -> active -> completed or failed: it
\* becomes active only after the executor was obtained, it reaches completed
\* or failed exactly once, and a completed or failed handle never changes
\* again.
C28_HandleLifecycle ==
    [][HandleLifecycle({<<"spawning", "active">>, <<"active", "completed">>,
                        <<"active", "failed">>})]_vars

\* C28 (amended): as stated, except that a handle whose executor could not be
\* obtained (getWorkerInstance throws) moves from spawning straight to
\* failed, without ever being active.
C28_Amended ==
    [][/\ HandleLifecycle({<<"spawning", "active">>, <<"active", "completed">>,
                           <<"active", "failed">>, <<"spawning", "failed">>})
       /\ \A w \in DOMAIN workers :
             workers[w].status = "spawning" /\ workers'[w].status = "failed"
                 => calls[w].pc = "getWorkerInstance"]_vars

\* the handles of one batch in three stages of their life: one completed,
\* one failed and one active
C28_Witness ==
    \E b \in DOMAIN batches :
        \A st \in {"completed", "failed", "active"} :
            \E w \in HandlesIn(workers, {st}) : w[1] = b

\* the number of positions of seq whose entry satisfies Test
CountIn(seq, Test(_)) == Cardinality({i \in 1..Len(seq) : Test(seq[i])})

\* the executions of batch b for task id `taskId` that have settled
SettledFor(b, taskId) ==
    {w \in DOMAIN calls :
        calls[w].batchId = b /\ calls[w].task.id = taskId /\ calls[w].pc = "done"}

\* C29: a TaskResult is recorded exactly once per execution that resolved and
\* never for a task that has not run: the length of a batch's results equals
\* completedTasks + failedTasks, completedTasks equals the number of results
\* with success = true, and no result exists for a task still in the backlog
\* or in flight (each task id has as many results as settled executions).
C29_OneResultPerExecution ==
    \A b \in DOMAIN batches :
        LET results == batches[b].results
        IN /\ Len(results) = batches[b].completedTasks + batches[b].failedTasks
           /\ batches[b].completedTasks = CountIn(results, LAMBDA r : r.success)
           /\ \A id \in 1..MaxTasks :
                 CountIn(results, LAMBDA r : r.taskId = id) =
                     Cardinality(SettledFor(b, id))
           /\ \A i \in 1..Len(loops[b].taskQueue) :
                 CountIn(results, LAMBDA r : r.taskId = loops[b].taskQueue[i].id) = 0
           /\ \A w \in DOMAIN calls :
                 calls[w].batchId = b /\ calls[w].pc # "done"
                     => CountIn(results, LAMBDA r : r.taskId = calls[w].task.id) = 0

\* a batch with one result recorded, one execution in flight and one task
\* still in the backlog
C29_Witness ==
    \E b \in DOMAIN batches :
        /\ Len(batches[b].results) = 1
        /\ \E w \in DOMAIN calls : calls[w].batchId = b /\ calls[w].pc # "done"
        /\ loops[b].taskQueue # <<>>

\* the executions that end on spawnWorker's catch path in the step
Caught == {w \in Settling : workers'[w].status = "failed"}

\* the retry copies in the tasks list of batch record `batch`
RetryCopies(batch) == {i \in 1..Len(batch.tasks) : batch.tasks[i].retries > 0}

\* C30: a change of retryFailedTasks or maxRetries made by updateConfig
\* while a batch is processing applies to the tasks of that batch: whether a
\* task whose execution fails is re-queued is decided with the configuration
\* in force at that moment, not with the one of submitBatch time.
C30_RetryUsesCurrentConfig ==
    [][\A w \in Caught :
          LET b == calls[w].batchId
              task == calls[w].task
              retried == config.retryFailedTasks /\ task.retries < config.maxRetries
          IN batches'[b].tasks =
                 IF retried
                 THEN Append(batches[b].tasks, [task EXCEPT !.retries = @ + 1])
                 ELSE batches[b].tasks]_vars

\* two executions of one batch failed by throwing, both at their first
\* attempt; one was re-queued and the other was not, so the configuration
\* changed between the two failures
C30_Witness ==
    \E b \in DOMAIN batches :
        /\ Cardinality({w \in HandlesIn(workers, {"failed"}) : w[1] = b}) = 2
        /\ Cardinality(RetryCopies(batches[b])) = 1
        /\ \E w \in DOMAIN calls : calls[w].batchId = b /\ calls[w].pc # "done"

\* C31: after cancelBatch(b) has returned true, the dispatch loop of b starts
\* no further worker: no new WorkerHandle is created for a task of b that was
\* still in the backlog at the time of the cancel.
C31_NoWorkerAfterCancel ==
    [][\A b \in DOMAIN batches :
          CancelledInFlight(b)
              => \A w \in DOMAIN workers' \ DOMAIN workers : w[1] # b]_vars

\* C32: maxConcurrentWorkers is at least 1 in every reachable state (after
\* any sequence of scaleWorkers and updateConfig calls), so a dispatch loop
\* with a non-empty backlog and no execution in flight can always start a
\* worker and never loops without making progress.
C32_ConcurrencyAtLeastOne ==
    /\ config.maxConcurrentWorkers >= 1
    /\ \A b \in DOMAIN loops :
          /\ loops[b].maxConcurrentWorkers >= 1
          /\ loops[b].pc # "spin"

\* getActiveWorkers: the handles it returns
GetActiveWorkers == {w \in DOMAIN workers : workers[w].status \in {"active", "spawning"}}

\* the executions that have not settled yet
Unsettled == {w \in DOMAIN calls : calls[w].pc # "done"}

\* C33: in every reachable state stats.activeWorkers is non-negative and
\* equals the number of WorkerHandles that getActiveWorkers returns (status
\* spawning or active), and it is 0 whenever no dispatch loop has an
\* execution in flight.
C33_ActiveWorkersMatchesHandles ==
    /\ stats.activeWorkers >= 0
    /\ stats.activeWorkers = Cardinality(GetActiveWorkers)
    /\ (Unsettled = {} /\ \A b \in DOMAIN loops : loops[b].activeWorkers = {})
          => stats.activeWorkers = 0

\* all executions have settled, some completed and some failed, and the
\* counter is back at 0
C33_Witness ==
    /\ stats.activeWorkers = 0
    /\ Unsettled = {}
    /\ \E w \in DOMAIN workers : workers[w].status = "completed"
    /\ \E w \in DOMAIN workers : workers[w].status = "failed"

\* the executions dispatched for batch b
DispatchedFor(b) == {w \in DOMAIN calls : calls[w].batchId = b}

\* C34: when two or more batches are processed at the same time by one
\* dispatcher, no update is lost and batches do not mix: each resolved
\* execution adds exactly one result to the batch it was dispatched for and
\* to no other batch, and after all executions resolved each batch's results
\* count equals the number of executions dispatched for it.
C34_BatchesDoNotMix ==
    [][/\ \A w \in Settling :
             LET b == calls[w].batchId
             IN /\ Len(batches'[b].results) = Len(batches[b].results) + 1
                /\ SubSeq(batches'[b].results, 1, Len(batches[b].results))
                       = batches[b].results
                /\ batches'[b].results[Len(batches'[b].results)].taskId
                       = calls[w].task.id
                /\ batches'[b].completedTasks + batches'[b].failedTasks
                       = batches[b].completedTasks + batches[b].failedTasks + 1
                /\ \A other \in DOMAIN batches \ {b} :
                       batches'[other] = batches[other]
       /\ (\A w \in DOMAIN calls' : calls'[w].pc = "done")
             => \A b \in DOMAIN batches' :
                   Len(batches'[b].results) =
                       Cardinality({w \in DOMAIN calls' : calls'[w].batchId = b})]_vars

\* two batches processed at the same time: the younger batch has a result
\* recorded while an execution of the older one is still in flight and
\* after the older one got a result of its own
C34_Witness ==
    /\ Len(batches) = 2
    /\ Len(batches[1].results) >= 1
    /\ Len(batches[2].results) >= 1
    /\ \E w \in DispatchedFor(1) : calls[w].pc # "done"

\* the sum of field `field` over the first n batch records
RECURSIVE SumOverBatches(_, _)
SumOverBatches(field, n) ==
    IF n = 0 THEN 0 ELSE batches[n][field] + SumOverBatches(field, n - 1)

\* C35: the fleet-wide result counters agree with the batches: in every
\* reachable state stats.completedTasks equals the sum of completedTasks
\* over all batches, stats.failedTasks equals the sum of failedTasks over all
\* batches, and stats.totalBatches equals the number of batch records.
C35_StatsAgreeWithBatches ==
    /\ stats.completedTasks = SumOverBatches("completedTasks", Len(batches))
    /\ stats.failedTasks = SumOverBatches("failedTasks", Len(batches))
    /\ stats.totalBatches = Len(batches)

\* two batches, each with results of its own, successes and failures among
\* them
C35_Witness ==
    /\ Len(batches) = 2
    /\ \A b \in 1..2 : batches[b].completedTasks + batches[b].failedTasks >= 1
    /\ stats.completedTasks >= 1
    /\ stats.failedTasks >= 1

\* C36: in every reachable state stats.totalTasks equals the sum of
\* totalTasks over all batches, including after retries have been admitted.
C36_TotalTasksAgree ==
    stats.totalTasks = SumOverBatches("totalTasks", Len(batches))

\* task id was handed out by scheduleTask / scheduleRecurringTask and is not
\* in the schedule: only cancelTask removes a key from state.tasks, so a
\* cancelTask(id) has returned true
CancelledTask(id) == id <= schedStats.totalTasks /\ ~HasTask(schedTasks, id)

\* the step starts the callback of task id: a run of alarm or executeTask
\* reaches the await of that callback (the run that has just reached an await
\* is the last of schedRuns)
CallbackStarted(id) ==
    /\ schedRuns' # schedRuns
    /\ Len(schedRuns') >= Len(schedRuns)
    /\ Head(schedRuns'[Len(schedRuns')].due).id = id

\* C37: after SchedulerAgent.cancelTask(id) has returned true, the task id
\* stays absent from the schedule in every later state and its callback is
\* not started again, including when the cancel interleaves with an alarm
\* run (or executeTask) that had already selected the task before the
\* cancel.
C37_CancelledTaskStaysCancelled ==
    [][\A id \in 1..MaxScheduled :
          CancelledTask(id)
              => /\ ~HasTask(schedTasks', id)
                 /\ ~CallbackStarted(id)]_vars

====
